---- MODULE Spec2Model ----
(***************************************************************************)
(* Array-backed max-heaps of projects/algorithms_and_data_structures:      *)
(* the binary Heap<T, S> of main.rs (slot 0 holds a dummy element), the    *)
(* DAryHeap<T> of d_ary_heap.rs and merge_sorted of merge_sorted_list.rs.  *)
(* A Rust Vec is a TLA+ sequence; Rust index i is position i + 1, and the  *)
(* operators Get/Set/exchange take Rust indices, as the source does.       *)
(***************************************************************************)
EXTENDS Integers, Sequences, FiniteSets, TLC

VARIABLES
    T,              \* the element type the heap is instantiated at
    kind,           \* which structure the behaviour exercises: "Heap" or "DAryHeap"
    array,          \* Heap.array (with its dummy at index 0) or DAryHeap.array
    degree,         \* DAryHeap.degree (2 for the binary Heap)
    state,          \* the type-state S of Heap<T, S>: "PriorityQueue" or "Sorted"
    op,             \* the last operation called
    result,         \* what the last operation returned
    initial_array,  \* the argument of build_heap / DAryHeap::new
    out,            \* the values returned by successive extract_max calls
    pc,             \* position of the driver (construction, merge loop)
    cap,            \* the largest heap size the driver lets a behaviour reach
    sorted_lists,   \* merge_sorted: its argument
    indices,        \* merge_sorted: the per-list cursor, Some(i) or None
    merged_vec      \* merge_sorted: the output buffer

vars == <<T, kind, array, degree, state, op, result, initial_array, out, pc,
          cap, sorted_lists, indices, merged_vec>>

(* ------------------------------ bounds -------------------------------- *)
MaxLen == 4
MaxPQLen == 6
MaxHeapLen == 6
MaxVal == 2
MaxDegree == 3
MaxBuildLen == 5
MaxLists == 3
MaxListLen == 2
MaxMergeVal == 1

Values == 0..MaxVal

RECURSIVE SeqsUpTo(_, _)
SeqsUpTo(S, n) == IF n = 0 THEN {<<>>}
                  ELSE SeqsUpTo(S, n - 1) \cup [1..n -> S]

(* --------------------------- Vec<T> helpers --------------------------- *)
Get(v, i) == v[i + 1]
Set(v, i, x) == [v EXCEPT ![i + 1] = x]
push(v, x) == Append(v, x)
pop(v) == SubSeq(v, 1, Len(v) - 1)
last(v) == v[Len(v)]
reverse(v) == [p \in 1..Len(v) |-> v[Len(v) + 1 - p]]

\* variant: the first slot is copied over the second and not the other way
exchange_one_way(v, i1, i2) == [v EXCEPT ![i2 + 1] = v[i1 + 1]]

exchange(v, i1, i2) == [v EXCEPT ![i1 + 1] = v[i2 + 1], ![i2 + 1] = v[i1 + 1]]

\* Option / Result values
None == <<"None">>
Some(x) == <<"Some", x>>
Ok(x) == <<"Ok", x>>
OkUnit == <<"Ok">>
Err == <<"Err">>
Panic == <<"Panic">>

(* ----------------------- the element type T --------------------------- *)
\* IndexValue(usize, T) is the pair <<index, value>>; its PartialOrd compares
\* the value alone, its derived PartialEq compares both fields.
IndexValue(i, x) == <<i, x>>
key(e) == IF T = "IndexValue" THEN e[2] ELSE e
lt(a, b) == key(a) < key(b)
gt(a, b) == key(a) > key(b)
le(a, b) == key(a) <= key(b)
default == IF T = "IndexValue" THEN IndexValue(0, 0) ELSE 0

(* ------------------------- binary Heap<T, S> -------------------------- *)
parent(i) == i \div 2
left(i) == 2 * i
right(i) == 2 * i + 1

size(a) == Len(a) - 1

\* variant: slot 0 is read, as in a heap without a dummy
max_of_slot_zero(a) == IF Len(a) > 0 THEN Some(Get(a, 0)) ELSE None

max(a) == IF Len(a) > 1 THEN Some(Get(a, 1)) ELSE None

\* variant: the right child is never looked at
heapfy_index_to_max_left_only(v, i) ==
    IF gt(Get(v, left(i)), Get(v, i)) THEN left(i) ELSE i

heapfy_index_to_max(v, i) ==
    LET v_size == Len(v) - 1
        l == left(i)
        r == right(i)
        m1 == IF gt(Get(v, l), Get(v, i)) THEN l ELSE i
    IN  IF r <= v_size /\ gt(Get(v, r), Get(v, m1)) THEN r ELSE m1

RECURSIVE heapfy(_, _)
heapfy_step(v, i, index_to_max) ==
    IF i = index_to_max THEN v
    ELSE heapfy(exchange(v, i, index_to_max), index_to_max)
\* variant: nothing is sifted down
heapfy_leaves_all(v, i) == v

heapfy(v, i) ==
    IF left(i) > Len(v) - 1 THEN v
    ELSE heapfy_step(v, i, heapfy_index_to_max(v, i))

RECURSIVE recursive_heapfy(_, _)
\* the node that recursive_heapfy exchanges with i: i itself, or the greater
\* of its children, the left one first
recursive_heapfy_index_to_max(v, i) ==
    IF right(i) <= Len(v) - 1
          /\ gt(Get(v, right(i)), Get(v, IF gt(Get(v, left(i)), Get(v, i)) THEN left(i) ELSE i))
    THEN right(i)
    ELSE IF gt(Get(v, left(i)), Get(v, i)) THEN left(i) ELSE i

\* variant: after the exchange there is no recursive call
recursive_heapfy_one_level(v, i) ==
    IF left(i) > Len(v) - 1 THEN v
    ELSE IF i # recursive_heapfy_index_to_max(v, i)
         THEN exchange(v, i, recursive_heapfy_index_to_max(v, i))
         ELSE v

recursive_heapfy(v, i) ==
    IF left(i) > Len(v) - 1 THEN v
    ELSE IF i # recursive_heapfy_index_to_max(v, i)
         THEN recursive_heapfy(exchange(v, i, recursive_heapfy_index_to_max(v, i)),
                               recursive_heapfy_index_to_max(v, i))
         ELSE v

\* is_heap visits the live nodes in index order, from node i on: a child
\* greater than its node ends it with false, a node without a left or a
\* right child ends it with true
RECURSIVE is_heap_from(_, _)
\* variant: the right child is fetched but not compared
is_heap_from_left_only(v, i) ==
    IF i > Len(v) - 1 THEN TRUE
    ELSE IF left(i) >= Len(v) THEN TRUE
    ELSE IF lt(Get(v, i), Get(v, left(i))) THEN FALSE
    ELSE IF right(i) >= Len(v) THEN TRUE
    ELSE is_heap_from(v, i + 1)

is_heap_from(v, i) ==
    IF i > Len(v) - 1 THEN TRUE
    ELSE IF left(i) >= Len(v) THEN TRUE
    ELSE IF lt(Get(v, i), Get(v, left(i))) THEN FALSE
    ELSE IF right(i) >= Len(v) THEN TRUE
    ELSE IF lt(Get(v, i), Get(v, right(i))) THEN FALSE
    ELSE is_heap_from(v, i + 1)

is_heap(v) == is_heap_from(v, 1)

RECURSIVE build_heap_loop(_, _)
build_heap_loop(a, i) ==
    IF i >= 1 THEN build_heap_loop(heapfy(a, i), i - 1) ELSE a

\* variant: the loop starts one node too late, at (len >> 1) - 1
build_heap_late_start(xs) ==
    build_heap_loop(<<default>> \o xs, Len(xs) \div 2 - 1)

build_heap(xs) == build_heap_loop(<<default>> \o xs, Len(xs) \div 2)

\* the sift-up loop shared by replace, replace_if_greater and insert
RECURSIVE sift_up(_, _, _)
\* variant: the parents are shifted down but the new value is never written
sift_up_without_write(a, i, new_value) ==
    IF i > 1 /\ lt(Get(a, parent(i)), new_value)
    THEN sift_up(Set(a, i, Get(a, parent(i))), parent(i), new_value)
    ELSE a

\* variant: the loop goes on while i >= 1, up to the dummy's slot
sift_up_through_root(a, i, new_value) ==
    IF i >= 1 /\ lt(Get(a, parent(i)), new_value)
    THEN sift_up(Set(a, i, Get(a, parent(i))), parent(i), new_value)
    ELSE Set(a, i, new_value)

sift_up(a, i, new_value) ==
    IF i > 1 /\ lt(Get(a, parent(i)), new_value)
    THEN sift_up(Set(a, i, Get(a, parent(i))), parent(i), new_value)
    ELSE Set(a, i, new_value)

\* variant: the root is replaced by the last element and never sifted down
extract_max_no_heapfy(a) ==
    IF size(a) = 0 THEN [array |-> a, ret |-> None]
    ELSE LET swapped == exchange(a, 1, size(a))
         IN  [array |-> pop(swapped), ret |-> Some(last(swapped))]

extract_max(a) ==
    IF size(a) = 0 THEN [array |-> a, ret |-> None]
    ELSE LET swapped == exchange(a, 1, size(a))
         IN  [array |-> heapfy(pop(swapped), 1), ret |-> Some(last(swapped))]

\* variant: the range check of a 0-based index, i >= size
delete_zero_based(a, i) ==
    IF i >= size(a) THEN [array |-> a, ret |-> Err]
    ELSE LET swapped == IF i # size(a) THEN exchange(a, i, size(a)) ELSE a
         IN  [array |-> heapfy(pop(swapped), i), ret |-> Ok(last(swapped))]

\* variant: the last element is read but not removed
delete_no_pop(a, i) ==
    IF i = 0 \/ i > size(a) THEN [array |-> a, ret |-> Err]
    ELSE LET swapped == IF i # size(a) THEN exchange(a, i, size(a)) ELSE a
         IN  [array |-> heapfy(swapped, i), ret |-> Ok(last(swapped))]

\* variant: slot i is never exchanged with the last slot before the pop
delete_without_exchange(a, i) ==
    IF i = 0 \/ i > size(a) THEN [array |-> a, ret |-> Err]
    ELSE [array |-> heapfy(pop(a), i), ret |-> Ok(last(a))]

delete(a, i) ==
    IF i = 0 \/ i > size(a) THEN [array |-> a, ret |-> Err]
    ELSE LET swapped == IF i # size(a) THEN exchange(a, i, size(a)) ELSE a
         IN  [array |-> heapfy(pop(swapped), i), ret |-> Ok(last(swapped))]

\* variant: a greater value is written in place and never sifted up
replace_greater_in_place(a, i, new_value) ==
    IF i = 0 \/ i > size(a) THEN [array |-> a, ret |-> Err]
    ELSE IF lt(new_value, Get(a, i))
         THEN [array |-> heapfy(Set(a, i, new_value), i), ret |-> OkUnit]
    ELSE IF new_value = Get(a, i) THEN [array |-> a, ret |-> OkUnit]
    ELSE [array |-> Set(a, i, new_value), ret |-> OkUnit]

\* variant: a smaller value is written in place and never sifted down
replace_no_heapfy(a, i, new_value) ==
    IF i = 0 \/ i > size(a) THEN [array |-> a, ret |-> Err]
    ELSE IF lt(new_value, Get(a, i))
         THEN [array |-> Set(a, i, new_value), ret |-> OkUnit]
    ELSE IF new_value = Get(a, i) THEN [array |-> a, ret |-> OkUnit]
    ELSE IF size(a) = 1 THEN [array |-> Set(a, i, new_value), ret |-> OkUnit]
    ELSE [array |-> sift_up(a, i, new_value), ret |-> OkUnit]

replace(a, i, new_value) ==
    IF i = 0 \/ i > size(a) THEN [array |-> a, ret |-> Err]
    ELSE IF lt(new_value, Get(a, i))
         THEN [array |-> heapfy(Set(a, i, new_value), i), ret |-> OkUnit]
    ELSE IF new_value = Get(a, i) THEN [array |-> a, ret |-> OkUnit]
    ELSE IF size(a) = 1 THEN [array |-> Set(a, i, new_value), ret |-> OkUnit]
    ELSE [array |-> sift_up(a, i, new_value), ret |-> OkUnit]

\* variant: a smaller value is written too, as replace does
replace_if_greater_writes_smaller(a, i, new_value) == replace(a, i, new_value)

\* variant: the range check forgets i == 0
replace_if_greater_accepts_zero(a, i, new_value) ==
    IF i > size(a) THEN [array |-> a, ret |-> Err]
    ELSE IF le(new_value, Get(a, i)) THEN [array |-> a, ret |-> OkUnit]
    ELSE [array |-> sift_up(a, i, new_value), ret |-> OkUnit]

replace_if_greater(a, i, new_value) ==
    IF i = 0 \/ i > size(a) THEN [array |-> a, ret |-> Err]
    ELSE IF le(new_value, Get(a, i)) THEN [array |-> a, ret |-> OkUnit]
    ELSE [array |-> sift_up(a, i, new_value), ret |-> OkUnit]

\* variant: the key also climbs over a parent equal to it
RECURSIVE sift_up_past_equal(_, _, _)
sift_up_past_equal(a, i, new_value) ==
    IF i > 1 /\ le(Get(a, parent(i)), new_value)
    THEN sift_up_past_equal(Set(a, i, Get(a, parent(i))), parent(i), new_value)
    ELSE Set(a, i, new_value)
insert_past_equal(a, k) ==
    LET pushed == push(a, k)
    IN  IF size(pushed) = 1 THEN pushed
        ELSE sift_up_past_equal(pushed, size(pushed), k)

insert(a, k) ==
    LET pushed == push(a, k)
    IN  IF size(pushed) = 1 THEN pushed
        ELSE sift_up(pushed, size(pushed), k)

RECURSIVE heapsort_loop(_, _)
heapsort_loop(v, length) ==
    IF length >= 2
    THEN LET w == exchange(v, 1, length)
             live == heapfy(SubSeq(w, 1, length), 1)
         IN  heapsort_loop(live \o SubSeq(w, length + 1, Len(w)), length - 1)
    ELSE v

\* variant: after the exchange the live prefix is not sifted down
heapsort_iteration_without_heapfy(v, length) == exchange(v, 1, length)

\* one iteration of the loop of heapsort, entered with live length `length`:
\* exchange!(v, 1, length); length -= 1; heapfy(&mut v[..length + 1], 1)
heapsort_iteration(v, length) ==
    heapfy(SubSeq(exchange(v, 1, length), 1, length), 1)
        \o SubSeq(exchange(v, 1, length), length + 1, Len(v))

\* the array when the loop, entered with live length `length`, has brought
\* the live length down to `stop` (or has ended before)
RECURSIVE heapsort_until(_, _, _)
heapsort_until(v, length, stop) ==
    IF length >= 2 /\ length > stop
    THEN heapsort_until(heapsort_iteration(v, length), length - 1, stop)
    ELSE v

\* variant: the loop starts at size - 1 and leaves the last element out
heapsort_short(a) == heapsort_loop(a, size(a) - 1)

heapsort(a) == heapsort_loop(a, size(a))

is_sorted(a) == \A p \in 2..(Len(a) - 1) : le(a[p], a[p + 1])

\* variant: pops without first exchanging the dummy to the end
priority_queue_keeps_dummy(a) == build_heap(pop(a))

\* variant: the sorted elements are reversed and the heap is built from them
priority_queue_of_reverse(a) == build_heap(reverse(Tail(a)))

priority_queue(a) == build_heap(pop(exchange(a, 0, Len(a) - 1)))

(* ---------------------------- DAryHeap<T> ----------------------------- *)
d_parent(i, d) == (i - 1) \div d
children_min(i, d) == i * d + 1

\* the for loop of heapfy over children_range!(parent, degree)
RECURSIVE d_scan(_, _, _, _)
\* variant: a child equal to the greatest so far takes its place
d_scan_prefers_later(v, j, end, m) ==
    IF j >= end \/ j >= Len(v) THEN m
    ELSE d_scan(v, j + 1, end, IF lt(Get(v, j), Get(v, m)) THEN m ELSE j)

d_scan(v, j, end, m) ==
    IF j >= end \/ j >= Len(v) THEN m
    ELSE d_scan(v, j + 1, end, IF gt(Get(v, j), Get(v, m)) THEN j ELSE m)

RECURSIVE d_heapfy_loop(_, _, _)
d_heapfy_step(v, d, p, m) ==
    IF m = p THEN v ELSE d_heapfy_loop(exchange(v, m, p), d, m)
d_heapfy_loop(v, d, p) ==
    d_heapfy_step(v, d, p, d_scan(v, children_min(p, d), children_min(p, d) + d, p))

\* heapfy asserts that its index is within the array limits
d_heapfy(v, d, i) ==
    IF i < Len(v) THEN [array |-> d_heapfy_loop(v, d, i), panic |-> FALSE]
    ELSE [array |-> v, panic |-> TRUE]

\* the loop of build_heap: heapfy(i); if i == 0 return; i -= 1
RECURSIVE d_build_heap_loop(_, _, _)
d_build_heap_next(h, d, i) ==
    IF h.panic \/ i = 0 THEN h ELSE d_build_heap_loop(h.array, d, i - 1)
d_build_heap_loop(v, d, i) == d_build_heap_next(d_heapfy(v, d, i), d, i)

\* variant: the loop starts at len / degree, which for degree 1 is len
d_build_heap_from_len(v, d) ==
    IF Len(v) = 0 THEN [array |-> v, panic |-> FALSE]
    ELSE d_build_heap_loop(v, d, Len(v) \div d)

d_build_heap(v, d) ==
    IF Len(v) = 0 THEN [array |-> v, panic |-> FALSE]
    ELSE d_build_heap_loop(v, d, (Len(v) - 1) \div d)

\* variant: a degree of 0 is taken as 1
d_new_coerces_zero(d, xs) == d_build_heap(xs, IF d > 0 THEN d ELSE 1)

\* DAryHeap::new asserts degree > 0
d_new(d, xs) ==
    IF d > 0 THEN d_build_heap(xs, d) ELSE [array |-> xs, panic |-> TRUE]

RECURSIVE d_sift_up(_, _, _, _)
\* variant: the loop stops after one parent has been shifted down
d_sift_up_one_level(v, d, i, new_value) ==
    IF gt(new_value, Get(v, d_parent(i, d)))
    THEN Set(Set(v, i, Get(v, d_parent(i, d))), d_parent(i, d), new_value)
    ELSE Set(v, i, new_value)

d_sift_up(v, d, i, new_value) ==
    IF gt(new_value, Get(v, d_parent(i, d)))
    THEN LET w == Set(v, i, Get(v, d_parent(i, d)))
         IN  IF d_parent(i, d) = 0 THEN Set(w, 0, new_value)
             ELSE d_sift_up(w, d, d_parent(i, d), new_value)
    ELSE Set(v, i, new_value)

d_replace(v, d, i, new_value) ==
    IF i >= Len(v) THEN [array |-> v, ret |-> Err]
    ELSE IF new_value = Get(v, i) THEN [array |-> v, ret |-> OkUnit]
    ELSE IF lt(new_value, Get(v, i))
         THEN LET h == d_heapfy(Set(v, i, new_value), d, i)
              IN  [array |-> h.array, ret |-> IF h.panic THEN Panic ELSE OkUnit]
    ELSE IF i = 0 THEN [array |-> Set(v, i, new_value), ret |-> OkUnit]
    ELSE [array |-> d_sift_up(v, d, i, new_value), ret |-> OkUnit]

d_insert(v, d, k) ==
    LET pushed == push(v, k)
    IN  IF Len(pushed) - 1 = 0 THEN pushed
        ELSE d_sift_up(pushed, d, Len(pushed) - 1, k)

\* variant: heapfy(0) is called whatever is left after the pop
d_extract_max_always_heapfy(v, d) ==
    IF Len(v) = 0 THEN [array |-> v, ret |-> None]
    ELSE LET swapped == exchange(v, 0, Len(v) - 1)
             h == d_heapfy(pop(swapped), d, 0)
         IN  [array |-> h.array,
              ret |-> IF h.panic THEN Panic ELSE Some(last(swapped))]

d_extract_max(v, d) ==
    IF Len(v) = 0 THEN [array |-> v, ret |-> None]
    ELSE LET swapped == exchange(v, 0, Len(v) - 1)
             popped == pop(swapped)
             h == IF Len(popped) > 1 THEN d_heapfy(popped, d, 0)
                  ELSE [array |-> popped, panic |-> FALSE]
         IN  [array |-> h.array,
              ret |-> IF h.panic THEN Panic ELSE Some(last(swapped))]

(* ------------------------ predicates on arrays ------------------------ *)
\* the max-heap property over the live elements a[1..] of the binary Heap
IsHeap(a) == \A i \in 2..size(a) : le(Get(a, i), Get(a, parent(i)))

\* the max-heap property of a d-ary heap array
IsDHeap(v, d) == \A i \in 1..(Len(v) - 1) : le(Get(v, i), Get(v, d_parent(i, d)))

Count(s, x) == Cardinality({p \in DOMAIN s : s[p] = x})
Range(s) == {s[p] : p \in DOMAIN s}
SameMultiset(s, t) ==
    /\ Len(s) = Len(t)
    /\ \A x \in Range(s) \cup Range(t) : Count(s, x) = Count(t, x)

live(a) == IF kind = "Heap" THEN Tail(a) ELSE a
HeapProperty == IF kind = "Heap" THEN IsHeap(array) ELSE IsDHeap(array, degree)

NonIncreasing(s) == \A p \in 1..(Len(s) - 1) : le(s[p + 1], s[p])
Ascending(s) == \A p \in 1..(Len(s) - 1) : le(s[p], s[p + 1])

(* ------------------ the heaps as a state machine ---------------------- *)
Indices == 0..(cap + 1)
Degrees == 1..MaxDegree
LiveSize == IF kind = "Heap" THEN size(array) ELSE Len(array)

MergeIdle ==
    /\ sorted_lists = <<>>
    /\ indices = <<>>
    /\ merged_vec = <<>>

\* Before construction: the caller holds the initial array and, for a d-ary
\* heap, the degree.
InitWith(c, kinds) ==
    /\ T = "int"
    /\ state = "PriorityQueue"
    /\ op = "none"
    /\ result = None
    /\ array = <<>>
    /\ out = <<>>
    /\ pc = "new"
    /\ cap = c
    /\ MergeIdle
    /\ initial_array \in SeqsUpTo(Values, c)
    /\ kind \in kinds
    /\ degree \in IF kind = "Heap" THEN {2} ELSE Degrees

Init == InitWith(MaxLen, {"Heap", "DAryHeap"})
InitPQ == InitWith(MaxPQLen, {"Heap", "DAryHeap"})
InitHeap == InitWith(MaxHeapLen, {"Heap"})

\* Heap::build_heap(initial_array): the vector is moved into the heap
BuildHeap ==
    /\ pc = "new"
    /\ kind = "Heap"
    /\ op' = "build_heap"
    /\ array' = build_heap(initial_array)
    /\ initial_array' = <<>>
    /\ result' = OkUnit
    /\ pc' = "built"
    /\ UNCHANGED <<T, kind, degree, state, out, cap, sorted_lists, indices, merged_vec>>

\* DAryHeap::new(degree, initial_array)
New ==
    /\ pc = "new"
    /\ kind = "DAryHeap"
    /\ op' = "new"
    /\ array' = d_new(degree, initial_array).array
    /\ initial_array' = <<>>
    /\ result' = IF d_new(degree, initial_array).panic THEN Panic ELSE OkUnit
    /\ pc' = IF d_new(degree, initial_array).panic THEN "panicked" ELSE "built"
    /\ UNCHANGED <<T, kind, degree, state, out, cap, sorted_lists, indices, merged_vec>>

Frame == UNCHANGED <<T, kind, degree, initial_array, out, pc, cap,
                     sorted_lists, indices, merged_vec>>

\* variant: the live methods are offered whatever the type-state is
Live_in_any_state == pc = "built" /\ kind = "Heap"

Live == pc = "built" /\ kind = "Heap" /\ state = "PriorityQueue"
DLive == pc = "built" /\ kind = "DAryHeap"

Max ==
    /\ Live
    /\ op' = "max"
    /\ result' = max(array)
    /\ UNCHANGED <<array, state>>
    /\ Frame

ExtractMax ==
    /\ Live
    /\ op' = "extract_max"
    /\ array' = extract_max(array).array
    /\ result' = extract_max(array).ret
    /\ UNCHANGED state
    /\ Frame

Delete(i) ==
    /\ Live
    /\ op' = "delete"
    /\ array' = delete(array, i).array
    /\ result' = delete(array, i).ret
    /\ UNCHANGED state
    /\ Frame

Replace(i, v) ==
    /\ Live
    /\ op' = "replace"
    /\ array' = replace(array, i, v).array
    /\ result' = replace(array, i, v).ret
    /\ UNCHANGED state
    /\ Frame

ReplaceIfGreater(i, v) ==
    /\ Live
    /\ op' = "replace_if_greater"
    /\ array' = replace_if_greater(array, i, v).array
    /\ result' = replace_if_greater(array, i, v).ret
    /\ UNCHANGED state
    /\ Frame

Insert(k) ==
    /\ Live
    /\ size(array) < cap
    /\ op' = "insert"
    /\ array' = insert(array, k)
    /\ result' = OkUnit
    /\ UNCHANGED state
    /\ Frame

Heapsort ==
    /\ Live
    /\ op' = "heapsort"
    /\ array' = heapsort(array)
    /\ state' = "Sorted"
    /\ result' = OkUnit
    /\ Frame

PriorityQueue ==
    /\ pc = "built"
    /\ kind = "Heap"
    /\ state = "Sorted"
    /\ op' = "priority_queue"
    /\ array' = priority_queue(array)
    /\ state' = "PriorityQueue"
    /\ result' = OkUnit
    /\ Frame

DReplace(i, v) ==
    /\ DLive
    /\ op' = "replace"
    /\ array' = d_replace(array, degree, i, v).array
    /\ result' = d_replace(array, degree, i, v).ret
    /\ UNCHANGED state
    /\ Frame

DInsert(k) ==
    /\ DLive
    /\ Len(array) < cap
    /\ op' = "insert"
    /\ array' = d_insert(array, degree, k)
    /\ result' = OkUnit
    /\ UNCHANGED state
    /\ Frame

DExtractMax ==
    /\ DLive
    /\ op' = "extract_max"
    /\ array' = d_extract_max(array, degree).array
    /\ result' = d_extract_max(array, degree).ret
    /\ UNCHANGED state
    /\ Frame

InsertAny == \E k \in Values : Insert(k)
DeleteAny == \E i \in Indices : Delete(i)
ReplaceAny == \E i \in Indices, v \in Values : Replace(i, v)
ReplaceIfGreaterAny == \E i \in Indices, v \in Values : ReplaceIfGreater(i, v)
DInsertAny == \E k \in Values : DInsert(k)
DReplaceAny == \E i \in Indices, v \in Values : DReplace(i, v)

\* insert, extract_max and replace alone, on either heap
NextPQ ==
    \/ BuildHeap
    \/ New
    \/ InsertAny
    \/ ExtractMax
    \/ ReplaceAny
    \/ DInsertAny
    \/ DExtractMax
    \/ DReplaceAny

Next ==
    \/ BuildHeap
    \/ New
    \/ Max
    \/ InsertAny
    \/ ExtractMax
    \/ DeleteAny
    \/ ReplaceAny
    \/ ReplaceIfGreaterAny
    \/ Heapsort
    \/ PriorityQueue
    \/ DInsertAny
    \/ DExtractMax
    \/ DReplaceAny

\* every operation of the binary Heap
NextHeap ==
    \/ BuildHeap
    \/ Max
    \/ InsertAny
    \/ ExtractMax
    \/ DeleteAny
    \/ ReplaceAny
    \/ ReplaceIfGreaterAny
    \/ Heapsort
    \/ PriorityQueue

Spec == Init /\ [][Next]_vars
SpecPQ == InitPQ /\ [][NextPQ]_vars
SpecHeap == InitHeap /\ [][NextHeap]_vars

(* ------------- construction, draining and sorting of one input -------- *)
\* The driver keeps a copy of the initial array it hands to the constructor,
\* and the list of what extract_max returned.
InitBuild ==
    /\ T = "int"
    /\ state = "PriorityQueue"
    /\ op = "none"
    /\ result = None
    /\ array = <<>>
    /\ out = <<>>
    /\ pc = "new"
    /\ cap = MaxBuildLen
    /\ MergeIdle
    /\ initial_array \in SeqsUpTo(Values, MaxBuildLen)
    /\ \/ kind = "Heap" /\ degree = 2
       \/ kind = "DAryHeap" /\ degree \in 0..MaxDegree

BuildFrame == UNCHANGED <<T, kind, degree, initial_array, cap,
                          sorted_lists, indices, merged_vec>>

BuildHeapOfCopy ==
    /\ pc = "new"
    /\ kind = "Heap"
    /\ op' = "build_heap"
    /\ array' = build_heap(initial_array)
    /\ result' = OkUnit
    /\ pc' = "built"
    /\ UNCHANGED <<state, out>>
    /\ BuildFrame

NewOfCopy ==
    /\ pc = "new"
    /\ kind = "DAryHeap"
    /\ op' = "new"
    /\ array' = d_new(degree, initial_array).array
    /\ result' = IF d_new(degree, initial_array).panic THEN Panic ELSE OkUnit
    /\ pc' = IF d_new(degree, initial_array).panic THEN "panicked" ELSE "built"
    /\ UNCHANGED <<state, out>>
    /\ BuildFrame

\* extract_max, called until the heap has answered None twice
DrainDone == Len(out) >= 2 /\ out[Len(out)] = None /\ out[Len(out) - 1] = None

Drain ==
    /\ Live
    /\ ~DrainDone
    /\ op' = "extract_max"
    /\ array' = extract_max(array).array
    /\ result' = extract_max(array).ret
    /\ out' = Append(out, extract_max(array).ret)
    /\ UNCHANGED <<state, pc>>
    /\ BuildFrame

DDrain ==
    /\ DLive
    /\ ~DrainDone
    /\ op' = "extract_max"
    /\ array' = d_extract_max(array, degree).array
    /\ result' = d_extract_max(array, degree).ret
    /\ out' = Append(out, d_extract_max(array, degree).ret)
    /\ UNCHANGED <<state, pc>>
    /\ BuildFrame

SortBuilt ==
    /\ Live
    /\ op = "build_heap"
    /\ op' = "heapsort"
    /\ array' = heapsort(array)
    /\ state' = "Sorted"
    /\ result' = OkUnit
    /\ UNCHANGED <<out, pc>>
    /\ BuildFrame

Requeue ==
    /\ pc = "built"
    /\ kind = "Heap"
    /\ state = "Sorted"
    /\ op' = "priority_queue"
    /\ array' = priority_queue(array)
    /\ state' = "PriorityQueue"
    /\ result' = OkUnit
    /\ pc' = "requeued"
    /\ UNCHANGED out
    /\ BuildFrame

NextBuild ==
    \/ BuildHeapOfCopy
    \/ NewOfCopy
    \/ Drain
    \/ DDrain
    \/ SortBuilt
    \/ Requeue

SpecBuild == InitBuild /\ [][NextBuild]_vars

(* --------------------------- merge_sorted ----------------------------- *)
checked_sub(n, m) == IF n >= m THEN Some(n - m) ELSE None

AscendingInts(s) == \A p \in 1..(Len(s) - 1) : s[p] <= s[p + 1]
AscendingLists == {l \in SeqsUpTo(0..MaxMergeVal, MaxListLen) : AscendingInts(l)}

\* the candidates pushed by the first loop: (i, last element) of each
\* non-empty list i, in list order (list i is sorted_lists[i + 1])
RECURSIVE merge_initial_array(_, _)
\* variant: the first element of each list is pushed instead of the last
merge_initial_array_of_first(lists, n) ==
    IF n = 0 THEN <<>>
    ELSE merge_initial_array(lists, n - 1) \o
         (IF lists[n] # <<>> THEN <<IndexValue(n - 1, lists[n][1])>> ELSE <<>>)

merge_initial_array(lists, n) ==
    IF n = 0 THEN <<>>
    ELSE merge_initial_array(lists, n - 1) \o
         (IF lists[n] # <<>> THEN <<IndexValue(n - 1, last(lists[n]))>> ELSE <<>>)

\* variant: the cursor starts on the last element instead of before it
merge_indices_on_last(lists) ==
    [n \in 1..Len(lists) |->
        IF lists[n] # <<>> THEN Some(Len(lists[n]) - 1) ELSE Some(0)]

\* variant: the cursor of a non-empty list is last_index + 1
merge_indices_past_last(lists) ==
    [n \in 1..Len(lists) |->
        IF lists[n] # <<>> THEN Some(Len(lists[n])) ELSE Some(0)]

\* the cursors after the first loop: vec![Some(0); n], then for a non-empty
\* list last_index.checked_sub(1)
merge_indices(lists) ==
    [n \in 1..Len(lists) |->
        IF lists[n] # <<>> THEN checked_sub(Len(lists[n]) - 1, 1) ELSE Some(0)]

InitMerge ==
    /\ T = "IndexValue"
    /\ kind = "Heap"
    /\ degree = 2
    /\ state = "PriorityQueue"
    /\ op = "none"
    /\ result = None
    /\ array = <<>>
    /\ initial_array = <<>>
    /\ out = <<>>
    /\ cap = MaxLists
    /\ pc = "start"
    /\ sorted_lists \in SeqsUpTo(AscendingLists, MaxLists)
    /\ indices = <<>>
    /\ merged_vec = <<>>

MergeFrame == UNCHANGED <<T, kind, degree, state, op, result, initial_array,
                          out, cap, sorted_lists>>

\* lines 37-52: the cursors, the candidates and the heap built from them
MergeStart ==
    /\ pc = "start"
    /\ indices' = merge_indices(sorted_lists)
    /\ array' = build_heap(merge_initial_array(sorted_lists, Len(sorted_lists)))
    /\ merged_vec' = <<>>
    /\ pc' = "loop"
    /\ MergeFrame

\* variant: the next candidate is inserted beside the root it should replace
merge_iteration_inserts(list_index, value) ==
    LET cursor == indices[list_index + 1]
        list == sorted_lists[list_index + 1]
    IN  IF cursor = None
        THEN /\ array' = extract_max(array).array
             /\ indices' = indices
             /\ merged_vec' = push(merged_vec, value)
             /\ pc' = "loop"
        ELSE /\ array' = insert(array, IndexValue(list_index, Get(list, cursor[2])))
             /\ indices' = [indices EXCEPT ![list_index + 1] = checked_sub(cursor[2], 1)]
             /\ merged_vec' = push(merged_vec, value)
             /\ pc' = "loop"

\* one iteration of the while loop, for the root (list_index, value)
merge_iteration(list_index, value) ==
    LET cursor == indices[list_index + 1]
        list == sorted_lists[list_index + 1]
    IN  IF cursor = None
        THEN /\ array' = extract_max(array).array
             /\ indices' = indices
             /\ merged_vec' = push(merged_vec, value)
             /\ pc' = "loop"
        ELSE IF cursor[2] >= Len(list)
                \/ replace(array, 1, IndexValue(list_index, Get(list, cursor[2]))).ret = Err
        THEN /\ pc' = "panicked"
             /\ UNCHANGED <<array, indices, merged_vec>>
        ELSE /\ array' = replace(array, 1,
                             IndexValue(list_index, Get(list, cursor[2]))).array
             /\ indices' = [indices EXCEPT ![list_index + 1] = checked_sub(cursor[2], 1)]
             /\ merged_vec' = push(merged_vec, value)
             /\ pc' = "loop"

MergeLoop ==
    /\ pc = "loop"
    /\ size(array) >= 1
    /\ IF max(array) = None
       THEN pc' = "panicked" /\ UNCHANGED <<array, indices, merged_vec>>
       ELSE merge_iteration(max(array)[2][1], max(array)[2][2])
    /\ MergeFrame

\* variant: the loop stops while one candidate is still in the heap
MergeReturn_with_one_left ==
    /\ pc = "loop"
    /\ size(array) <= 1
    /\ merged_vec' = reverse(merged_vec)
    /\ pc' = "done"
    /\ UNCHANGED <<array, indices>>
    /\ MergeFrame

\* lines 71-72: the buffer is reversed and returned
MergeReturn ==
    /\ pc = "loop"
    /\ size(array) < 1
    /\ merged_vec' = reverse(merged_vec)
    /\ pc' = "done"
    /\ UNCHANGED <<array, indices>>
    /\ MergeFrame

NextMerge ==
    \/ MergeStart
    \/ MergeLoop
    \/ MergeReturn

SpecMerge == InitMerge /\ [][NextMerge]_vars

(* ------------------- heapfy called on its own ------------------------- *)
\* The unit tests call heapfy directly on a vector of their choice (for the
\* binary Heap a vector that starts with a dummy) and an index.
InitHeapfy ==
    /\ T = "int"
    /\ state = "PriorityQueue"
    /\ op = "none"
    /\ result = None
    /\ array = <<>>
    /\ out = <<>>
    /\ pc = "new"
    /\ cap = MaxBuildLen
    /\ MergeIdle
    /\ initial_array \in SeqsUpTo(Values, MaxBuildLen)
    /\ \/ kind = "Heap" /\ degree = 2
       \/ kind = "DAryHeap" /\ degree \in Degrees

\* Heap::heapfy(v, i) with v = [dummy] ++ initial_array; its callers pass an
\* index from 1 to one past the last element
HeapfyAt(i) ==
    /\ pc = "new"
    /\ kind = "Heap"
    /\ op' = "heapfy"
    /\ array' = heapfy(<<default>> \o initial_array, i)
    /\ result' = OkUnit
    /\ pc' = "heapfied"
    /\ UNCHANGED <<state, out>>
    /\ BuildFrame

\* DAryHeap { degree, array: initial_array }.heapfy(i)
DHeapfyAt(i) ==
    /\ pc = "new"
    /\ kind = "DAryHeap"
    /\ op' = "heapfy"
    /\ array' = d_heapfy(initial_array, degree, i).array
    /\ result' = IF d_heapfy(initial_array, degree, i).panic THEN Panic ELSE OkUnit
    /\ pc' = IF d_heapfy(initial_array, degree, i).panic THEN "panicked" ELSE "heapfied"
    /\ UNCHANGED <<state, out>>
    /\ BuildFrame

\* Heap::recursive_heapfy(&mut v, i) with v = [dummy] ++ initial_array
RecursiveHeapfyAt(i) ==
    /\ pc = "new"
    /\ kind = "Heap"
    /\ op' = "recursive_heapfy"
    /\ array' = recursive_heapfy(<<default>> \o initial_array, i)
    /\ result' = OkUnit
    /\ pc' = "heapfied"
    /\ UNCHANGED <<state, out>>
    /\ BuildFrame

\* Heap::is_heap(&v) with v = [dummy] ++ initial_array
IsHeapCall ==
    /\ pc = "new"
    /\ kind = "Heap"
    /\ op' = "is_heap"
    /\ array' = <<default>> \o initial_array
    /\ result' = Ok(is_heap(<<default>> \o initial_array))
    /\ pc' = "checked"
    /\ UNCHANGED <<state, out>>
    /\ BuildFrame

HeapfyAny == \E i \in 1..(Len(initial_array) + 1) : HeapfyAt(i)
RecursiveHeapfyAny == \E i \in 1..(Len(initial_array) + 1) : RecursiveHeapfyAt(i)
DHeapfyAny == \E i \in 0..Len(initial_array) : DHeapfyAt(i)

NextHeapfy ==
    \/ HeapfyAny
    \/ RecursiveHeapfyAny
    \/ IsHeapCall
    \/ DHeapfyAny

SpecHeapfy == InitHeapfy /\ [][NextHeapfy]_vars

(* ------------- inserts of elements that compare by a key -------------- *)
\* A heap of IndexValue elements, the element type merge_sorted uses: two
\* elements with the same value and different indices are equal in order
\* but are not the same element.  The heap starts empty; each inserted
\* element carries the number of live elements at its insertion as its index.
InitInsert ==
    /\ T = "IndexValue"
    /\ state = "PriorityQueue"
    /\ op = "none"
    /\ result = None
    /\ array = <<>>
    /\ out = <<>>
    /\ pc = "new"
    /\ cap = MaxLen
    /\ MergeIdle
    /\ initial_array = <<>>
    /\ kind \in {"Heap", "DAryHeap"}
    /\ degree \in IF kind = "Heap" THEN {2} ELSE Degrees

InsertIndexed == \E x \in Values : Insert(IndexValue(LiveSize, x))
DInsertIndexed == \E x \in Values : DInsert(IndexValue(LiveSize, x))

NextInsert ==
    \/ BuildHeap
    \/ New
    \/ InsertIndexed
    \/ ExtractMax
    \/ DInsertIndexed
    \/ DExtractMax

SpecInsert == InitInsert /\ [][NextInsert]_vars

(* ============================== claims ================================ *)

\* C1: the array produced by build (Heap::build_heap, DAryHeap::new with any
\* degree >= 1) satisfies the max-heap property: every non-root live element
\* is <= its parent.
C1_BuildYieldsHeap ==
    (pc = "built" /\ op \in {"build_heap", "new"}) => HeapProperty

C1_Witness ==
    /\ pc = "built"
    /\ op = "new"
    /\ degree = 3
    /\ Len(initial_array) = 5
    /\ array # initial_array

\* C2: from a built heap, after every insert, extract_max and replace (on the
\* binary Heap and on a DAryHeap of any degree >= 1) the max-heap property
\* holds over the live elements.
C2_OperationsKeepHeap == pc = "built" => HeapProperty

C2_Witness ==
    /\ kind = "Heap"
    /\ op = "replace"
    /\ result = OkUnit
    /\ size(array) = 6
    /\ Cardinality(Range(Tail(array))) = 3

\* C3: delete(i) with a valid index on an array with the max-heap property
\* leaves an array with the max-heap property, also when the last element,
\* moved into slot i, is larger than the parent of slot i.
C3_DeleteKeepsHeap ==
    [][\A i \in Indices : (IsHeap(array) /\ Delete(i)) => IsHeap(array')]_vars

\* what the extract_max calls so far returned, without the None answers
Returned == SelectSeq(out, LAMBDA r : r # None)
ReturnedValues == [p \in 1..Len(Returned) |-> Returned[p][2]]

\* C4: after build(xs) the first |xs| calls of extract_max return Some of the
\* greatest remaining element, so the returned values are non-increasing and
\* together with what is still in the heap they are xs; every later call
\* returns None.
C4_DrainDescending ==
    (pc = "built" /\ op \in {"build_heap", "new", "extract_max"}) =>
        /\ \A p \in 1..Len(out) :
              IF p <= Len(initial_array) THEN out[p][1] = "Some" ELSE out[p] = None
        /\ NonIncreasing(ReturnedValues)
        /\ SameMultiset(ReturnedValues \o live(array), initial_array)
        /\ \A p \in 1..Len(ReturnedValues) : \A q \in 1..Len(live(array)) :
              ReturnedValues[p] >= live(array)[q]

C4_Witness ==
    /\ kind = "Heap"
    /\ Len(initial_array) = 5
    /\ Len(out) = 7
    /\ ReturnedValues[1] > ReturnedValues[3]
    /\ ReturnedValues[3] > ReturnedValues[5]
    /\ initial_array[1] < initial_array[5]

RECURSIVE Flatten(_, _)
Flatten(lists, n) == IF n = 0 THEN <<>> ELSE Flatten(lists, n - 1) \o lists[n]

\* C5: for ascending input lists (empty lists and the empty collection
\* included) merge_sorted returns an ascending sequence with the elements of
\* all the inputs, each as often as the inputs hold it, so its length is the
\* sum of the input lengths.
C5_MergeCorrect ==
    pc \in {"done", "panicked"} =>
        /\ pc = "done"
        /\ AscendingInts(merged_vec)
        /\ SameMultiset(merged_vec, Flatten(sorted_lists, Len(sorted_lists)))

C5_Witness ==
    /\ pc = "done"
    /\ Len(sorted_lists) = 3
    /\ sorted_lists[1] = <<>>
    /\ Len(sorted_lists[2]) = 2
    /\ Len(sorted_lists[3]) = 2
    /\ sorted_lists[2][1] < sorted_lists[2][2]
    /\ sorted_lists[3][1] < sorted_lists[3][2]
    /\ Len(merged_vec) = 4

\* C6: build_heap(xs).heapsort() is in ascending order and is a permutation
\* of xs.
C6_HeapsortSorts ==
    (kind = "Heap" /\ op = "heapsort") =>
        /\ state = "Sorted"
        /\ Ascending(Tail(array))
        /\ SameMultiset(Tail(array), initial_array)

C6_Witness ==
    /\ op = "heapsort"
    /\ Len(initial_array) = 5
    /\ Cardinality(Range(initial_array)) = 3
    /\ ~Ascending(initial_array)
    /\ ~NonIncreasing(initial_array)

\* C7: build_heap(xs).heapsort().priority_queue() is a live heap with the
\* max-heap property whose live elements are exactly those of xs; the dummy
\* of slot 0 is not among them.
C7_RequeueRoundTrip ==
    (kind = "Heap" /\ op = "priority_queue") =>
        /\ state = "PriorityQueue"
        /\ Len(array) = Len(initial_array) + 1
        /\ IsHeap(array)
        /\ SameMultiset(Tail(array), initial_array)

C7_Witness ==
    /\ op = "priority_queue"
    /\ Len(initial_array) = 5
    /\ Cardinality(Range(initial_array)) = 2
    /\ 0 \notin Range(initial_array)

\* the documented index range of each structure: [1, size] for the binary
\* Heap (slot 0 is the dummy), [0, len) for DAryHeap
ValidIndex(i) ==
    IF kind = "Heap" THEN 1 <= i /\ i <= size(array)
    ELSE 0 <= i /\ i < Len(array)

IndexedCall(i, v) ==
    \/ Delete(i)
    \/ Replace(i, v)
    \/ ReplaceIfGreater(i, v)
    \/ DReplace(i, v)

\* C8: delete, replace and replace_if_greater called with an index outside
\* the valid range return an error and leave the array exactly as it was.
C8_ErrorHasNoEffect ==
    [][\A i \in Indices, v \in Values :
          (IndexedCall(i, v) /\ (~ValidIndex(i) \/ result' = Err)) =>
              (result' = Err /\ array' = array)]_vars

C8_Witness ==
    /\ kind = "Heap"
    /\ op = "replace_if_greater"
    /\ result = Err
    /\ size(array) = 3

\* C9 as stated: the calls fail exactly when i is outside [0, size), so index
\* 0 is accepted on a non-empty heap and index size is rejected.
C9_ZeroBasedRange ==
    [][\A i \in Indices, v \in Values :
          IndexedCall(i, v) => (result' = Err <=> ~(0 <= i /\ i < LiveSize))]_vars

\* C9 amended: on the binary Heap the calls fail exactly when i is outside
\* [1, size] (index 1 is the root, index 0 is rejected, index size is the
\* last element and is accepted); DAryHeap::replace fails exactly when i is
\* outside [0, len).
C9_DocumentedRange ==
    [][\A i \in Indices, v \in Values :
          IndexedCall(i, v) => (result' = Err <=> ~ValidIndex(i))]_vars

\* delete(1) on a heap of one element: index size is accepted
C9_Witness ==
    /\ kind = "Heap"
    /\ op = "delete"
    /\ result \in {Ok(x) : x \in Values}
    /\ size(array) = 0

\* C10: insert increases the size by one; extract_max on a non-empty heap and
\* delete with a valid index decrease it by one; extract_max on an empty heap
\* and delete with an invalid index leave it; replace, replace_if_greater and
\* max never change it.
C10_SizeConservation ==
    [][/\ (InsertAny \/ DInsertAny) => LiveSize' = LiveSize + 1
       /\ (ExtractMax \/ DExtractMax) =>
              LiveSize' = IF LiveSize = 0 THEN 0 ELSE LiveSize - 1
       /\ \A i \in Indices :
              Delete(i) => LiveSize' = IF ValidIndex(i) THEN LiveSize - 1 ELSE LiveSize
       /\ (ReplaceAny \/ ReplaceIfGreaterAny \/ Max \/ DReplaceAny) =>
              LiveSize' = LiveSize]_vars

C10_Witness ==
    /\ kind = "Heap"
    /\ op = "delete"
    /\ result \in {Ok(x) : x \in Values}
    /\ size(array) = 3

\* C11: the live elements of the heap returned by build(xs) (Heap::build_heap,
\* DAryHeap::new with any degree >= 1) are the elements of xs, each as often
\* as xs holds it, and the size of the heap is the length of xs.
C11_BuildKeepsMultiset ==
    (pc = "built" /\ op \in {"build_heap", "new"}) =>
        /\ LiveSize = Len(initial_array)
        /\ SameMultiset(live(array), initial_array)

C11_Witness ==
    /\ pc = "built"
    /\ op = "new"
    /\ degree = 2
    /\ Len(initial_array) = 5
    /\ Cardinality(Range(initial_array)) = 3
    /\ array[1] # initial_array[1]
    /\ array[2] # initial_array[2]

\* how often x occurs among the live elements, and the three ways a call
\* changes that count
Occurrences(a, x) == Count(live(a), x)
OneAdded(k) ==
    \A x \in Values :
        Occurrences(array', x) = Occurrences(array, x) + (IF x = k THEN 1 ELSE 0)
OneRemoved(r) ==
    \A x \in Values :
        Occurrences(array', x) = Occurrences(array, x) - (IF x = r THEN 1 ELSE 0)
OneUpdated(from, to) ==
    \A x \in Values :
        Occurrences(array', x) =
            Occurrences(array, x) - (IF x = from THEN 1 ELSE 0)
                                  + (IF x = to THEN 1 ELSE 0)

\* C12: each successful operation changes the multiset of live elements by
\* one logical element: insert(k) adds one k, an extract_max that returns
\* Some(r) removes one r, replace(i, v) with a valid i removes one occurrence
\* of the old A[i] and adds one v; nothing else is added, lost or duplicated.
C12_OneLogicalElement ==
    [][/\ \A k \in Values : (Insert(k) \/ DInsert(k)) => OneAdded(k)
       /\ ((ExtractMax \/ DExtractMax) /\ result' # None) =>
              (result'[1] = "Some" /\ OneRemoved(result'[2]))
       /\ \A i \in Indices, v \in Values :
              ((Replace(i, v) \/ DReplace(i, v)) /\ ValidIndex(i)) =>
                  (result' = OkUnit /\ OneUpdated(Get(array, i), v))]_vars

\* a replace that sifted a greater value up over two levels of the binary Heap
C12_Witness ==
    /\ kind = "Heap"
    /\ op = "replace"
    /\ result = OkUnit
    /\ size(array) = 4
    /\ Get(array, 1) = 2
    /\ Get(array, 2) = 1
    /\ Get(array, 3) = 0
    /\ Get(array, 4) = 1

\* C13: delete(i) with a valid index returns the value stored at index i
\* before the call, and the live elements afterwards are the previous ones
\* with one occurrence of that value removed, also when i is the last index
\* and when the heap has a single element.
C13_DeleteReturnsElement ==
    [][\A i \in Indices :
          (Delete(i) /\ ValidIndex(i)) =>
              (result' = Ok(Get(array, i)) /\ OneRemoved(Get(array, i)))]_vars

\* a delete that returned an inner element, neither the root nor the least
C13_Witness ==
    /\ kind = "Heap"
    /\ op = "delete"
    /\ result = Ok(1)
    /\ size(array) = 3
    /\ Get(array, 1) = 2
    /\ 0 \in Range(Tail(array))

LiveCall ==
    \/ Max
    \/ InsertAny
    \/ ExtractMax
    \/ DeleteAny
    \/ ReplaceAny
    \/ ReplaceIfGreaterAny

\* C14: the binary Heap is in exactly one of the states PriorityQueue (live)
\* and Sorted; a step from live to Sorted is a heapsort, and heapsort always
\* ends in Sorted; in state Sorted no insert, extract_max, delete, replace,
\* replace_if_greater or max step is possible; a step from Sorted to live is
\* a priority_queue call, the only call a Sorted heap accepts.
C14_TypeState ==
    [][/\ state \in {"PriorityQueue", "Sorted"}
       /\ state' \in {"PriorityQueue", "Sorted"}
       /\ (state = "PriorityQueue" /\ state' = "Sorted") => Heapsort
       /\ Heapsort => (state = "PriorityQueue" /\ state' = "Sorted")
       /\ state = "Sorted" => (~LiveCall /\ ~Heapsort /\ PriorityQueue)
       /\ (state = "Sorted" /\ state' = "PriorityQueue") => PriorityQueue]_vars

\* a sorted sequence, on which only priority_queue can act
C14_Witness ==
    /\ kind = "Heap"
    /\ state = "Sorted"
    /\ op = "heapsort"
    /\ size(array) = 4
    /\ Cardinality(Range(Tail(array))) = 3

\* C15 as stated: priority_queue() on the ascending sequence s left by
\* heapsort yields the heap array that build yields on the reverse of s.
C15_RequeueIsBuildOfReverse ==
    [][Requeue => array' = build_heap(reverse(Tail(array)))]_vars

\* s with its last element moved to the front
LastToFront(s) ==
    IF s = <<>> THEN s ELSE <<s[Len(s)]>> \o SubSeq(s, 1, Len(s) - 1)

\* C15 amended: priority_queue() on the ascending sequence s = e1 .. en left
\* by heapsort yields the heap array that build yields on en, e1, .., e(n-1),
\* the sequence s with its greatest element moved to the front and the rest
\* still ascending; s is not reversed.
C15_RequeueIsBuildOfLastToFront ==
    [][Requeue => array' = build_heap(LastToFront(Tail(array)))]_vars

\* a requeued heap whose second slot is below its third: build of the
\* descending sequence would have left them the other way round
C15_Witness ==
    /\ kind = "Heap"
    /\ op = "priority_queue"
    /\ Len(initial_array) = 3
    /\ Cardinality(Range(initial_array)) = 3
    /\ lt(Get(array, 2), Get(array, 3))

\* C16: DAryHeap::new with degree 0 fails its precondition for every initial
\* array: the call panics, no heap exists afterwards (nothing is ever
\* extracted or replaced, and the degree is not taken as 1), while with
\* every degree >= 1 the call returns a heap.
C16_ZeroDegreeRejected ==
    (kind = "DAryHeap" /\ pc # "new") =>
        IF degree = 0
        THEN /\ pc = "panicked"
             /\ op = "new"
             /\ result = Panic
             /\ out = <<>>
        ELSE /\ pc = "built"
             /\ result # Panic

C16_Witness ==
    /\ kind = "DAryHeap"
    /\ degree = 0
    /\ pc = "panicked"
    /\ Len(initial_array) = 5
    /\ Cardinality(Range(initial_array)) = 3

\* C17: with degree 1, new and every later insert, extract_max and replace
\* (with a valid or an invalid index) complete without an assertion failure
\* or an out-of-bounds access, and after each of them the array is in
\* non-increasing order.
C17_DegreeOneSortedList ==
    (kind = "DAryHeap" /\ degree = 1 /\ pc # "new") =>
        /\ pc = "built"
        /\ result # Panic
        /\ NonIncreasing(array)

C17_Witness ==
    /\ kind = "DAryHeap"
    /\ degree = 1
    /\ op = "replace"
    /\ result = OkUnit
    /\ Len(array) = 6
    /\ Cardinality(Range(array)) = 3

\* C18: a DAryHeap of degree 2 and the binary Heap, started on the same
\* initial sequence and given the same insert, extract_max and replace calls
\* (replace(i, v) on the binary Heap being replace(i - 1, v) on the DAryHeap),
\* hold the same element sequence after each step, the binary array being
\* read without its dummy, and return the same results.  Stated step by
\* step: whenever the binary Heap moves from array to array', the DAryHeap
\* holding Tail(array) moves to Tail(array') with the same result.
C18_DegreeTwoIsBinary ==
    [][/\ BuildHeap =>
              d_new(2, initial_array) = [array |-> Tail(array'), panic |-> FALSE]
       /\ \A k \in Values :
              Insert(k) => d_insert(Tail(array), 2, k) = Tail(array')
       /\ ExtractMax =>
              d_extract_max(Tail(array), 2) = [array |-> Tail(array'), ret |-> result']
       /\ \A i \in Indices \ {0}, v \in Values :
              Replace(i, v) =>
                  d_replace(Tail(array), 2, i - 1, v) =
                      [array |-> Tail(array'), ret |-> result']]_vars

\* an extract_max that sifted the last element down past two equal children
C18_Witness ==
    /\ kind = "Heap"
    /\ op = "extract_max"
    /\ result = Some(2)
    /\ size(array) = 5
    /\ Get(array, 1) = 1
    /\ Get(array, 2) = 0
    /\ Get(array, 3) = 1

\* the list the root candidate comes from, its cursor, and the candidate the
\* loop body would read at that cursor
RootList == max(array)[2][1]
RootCursor == indices[RootList + 1]
NextCandidate ==
    IndexValue(RootList, Get(sorted_lists[RootList + 1], RootCursor[2]))

\* C19: merge_sorted never fails, for every collection of ascending lists
\* (empty lists, one-element lists and the empty collection included): no
\* expect of the loop panics, and at every iteration heap.max() is Some, the
\* root's list index is one of the lists, a cursor that is read is inside
\* its list, and the replace of the root does not return Err.
C19_MergeNeverFails ==
    /\ pc # "panicked"
    /\ (pc = "loop" /\ size(array) >= 1) =>
           /\ max(array) # None
           /\ RootList \in 0..(Len(sorted_lists) - 1)
           /\ RootCursor # None =>
                  /\ RootCursor[2] < Len(sorted_lists[RootList + 1])
                  /\ replace(array, 1, NextCandidate).ret = OkUnit

\* in the loop, with an empty list, an exhausted list and a list still read
C19_Witness ==
    /\ pc = "loop"
    /\ Len(sorted_lists) = 3
    /\ sorted_lists[2] = <<>>
    /\ Len(merged_vec) = 1
    /\ size(array) = 2
    /\ indices[1] = None
    /\ RootList = 2
    /\ RootCursor = Some(0)

\* the heap slots that hold a candidate of list j (j counted from 0)
CandidatesOf(j) == {p \in 2..Len(array) : array[p][1] = j}

\* how many elements of the first n lists are still to be read by the loop
RECURSIVE Unread(_)
Unread(n) ==
    IF n = 0 THEN 0
    ELSE Unread(n - 1) +
         (IF sorted_lists[n] = <<>> \/ indices[n] = None THEN 0
          ELSE indices[n][2] + 1)

\* C20 as stated: at every iteration of the loop, a list whose cursor is
\* Some has exactly one candidate in the heap and a list whose cursor is
\* None (exhausted) has none.
C20_CursorDecidesCandidate ==
    pc = "loop" =>
        \A j \in 0..(Len(sorted_lists) - 1) :
            Cardinality(CandidatesOf(j)) = IF indices[j + 1] # None THEN 1 ELSE 0

\* C20 amended: at every iteration of the loop the heap holds at most one
\* candidate of each list.  A non-empty list whose cursor is Some(c) has
\* exactly one, the element just after the cursor; a list whose cursor is
\* None has at most one, its first element, which stays in the heap until
\* it is emitted; an empty list has none although its cursor stays Some(0).
\* The emitted elements, the candidates and the elements still to be read
\* add up to all the elements of the lists.
C20_OneCandidatePerList ==
    pc = "loop" =>
        /\ \A j \in 0..(Len(sorted_lists) - 1) :
               /\ Cardinality(CandidatesOf(j)) <= 1
               /\ sorted_lists[j + 1] = <<>> =>
                      (CandidatesOf(j) = {} /\ indices[j + 1] = Some(0))
               /\ (sorted_lists[j + 1] # <<>> /\ indices[j + 1] # None) =>
                      \E p \in CandidatesOf(j) :
                          array[p] = IndexValue(j, Get(sorted_lists[j + 1],
                                                       indices[j + 1][2] + 1))
               /\ (sorted_lists[j + 1] # <<>> /\ indices[j + 1] = None) =>
                      \A p \in CandidatesOf(j) :
                          array[p] = IndexValue(j, Get(sorted_lists[j + 1], 0))
        /\ Len(merged_vec) + size(array) + Unread(Len(sorted_lists)) =
               Len(Flatten(sorted_lists, Len(sorted_lists)))

\* after one iteration: an empty list with cursor Some(0) and no candidate,
\* and two lists with cursor None whose first elements are still candidates
C20_Witness ==
    /\ pc = "loop"
    /\ Len(sorted_lists) = 3
    /\ Len(merged_vec) = 1
    /\ sorted_lists[1] = <<>>
    /\ indices = <<Some(0), None, None>>
    /\ Len(sorted_lists[3]) = 2
    /\ Cardinality(CandidatesOf(1)) = 1
    /\ Cardinality(CandidatesOf(2)) = 1

NonEmptyLists == {n \in 1..Len(sorted_lists) : sorted_lists[n] # <<>>}

\* C21: from the moment merge_sorted has built its heap, the heap holds at
\* most one candidate per source list, so its size is at most the number of
\* non-empty input lists; and no iteration of the loop increases the size of
\* the heap.
C21_HeapBoundedByLists ==
    /\ [](pc # "start" =>
            /\ \A j \in 0..(Len(sorted_lists) - 1) :
                   Cardinality(CandidatesOf(j)) <= 1
            /\ size(array) <= Cardinality(NonEmptyLists))
    /\ [][MergeLoop => size(array') <= size(array)]_vars

\* in the loop with as many candidates as lists, after two iterations
C21_Witness ==
    /\ pc = "loop"
    /\ Len(sorted_lists) = 3
    /\ Cardinality(NonEmptyLists) = 3
    /\ size(array) = 3
    /\ Len(merged_vec) = 2

\* C22: replace_if_greater(i, v) with a valid index i and v <= A[i] returns
\* Ok and leaves every slot of the array as it was.
C22_NotGreaterIsNoOp ==
    [][\A i \in Indices, v \in Values :
          (ReplaceIfGreater(i, v) /\ ValidIndex(i) /\ le(v, Get(array, i))) =>
              (result' = OkUnit /\ array' = array)]_vars

\* replace_if_greater answered Ok on a heap of four elements
C22_Witness ==
    /\ kind = "Heap"
    /\ op = "replace_if_greater"
    /\ result = OkUnit
    /\ size(array) = 4
    /\ Get(array, 1) = 2
    /\ Get(array, 2) = 1
    /\ Get(array, 3) = 1
    /\ Get(array, 4) = 0

\* C23: replace_if_greater(i, v) with a valid index i and v > A[i] leaves the
\* array and returns the result that replace(i, v) gives on the same heap;
\* with an invalid index both return an error.
C23_GreaterIsReplace ==
    [][\A i \in Indices, v \in Values :
          ReplaceIfGreater(i, v) =>
              IF ValidIndex(i)
              THEN gt(v, Get(array, i)) =>
                       /\ array' = replace(array, i, v).array
                       /\ result' = replace(array, i, v).ret
              ELSE /\ result' = Err
                   /\ replace(array, i, v).ret = Err]_vars

\* replace_if_greater put a 2 at the root of a heap whose other elements
\* are smaller
C23_Witness ==
    /\ kind = "Heap"
    /\ op = "replace_if_greater"
    /\ result = OkUnit
    /\ size(array) = 4
    /\ Get(array, 1) = 2
    /\ Get(array, 2) = 1
    /\ Get(array, 3) = 0
    /\ Get(array, 4) = 1

(* ---- reference sift-down and sift-up, by pairwise swaps, on the ------- *)
(* ---- sequence of live elements with indices counted from 0 ------------ *)
Children(n, d, i) == {c \in (d * i + 1)..(d * i + d) : c < n}

\* the child of i that holds the greatest value, the first one on ties
FirstMaxChild(v, d, i) ==
    CHOOSE c \in Children(Len(v), d, i) :
        \A c2 \in Children(Len(v), d, i) :
            /\ le(Get(v, c2), Get(v, c))
            /\ c2 < c => lt(Get(v, c2), Get(v, c))

RECURSIVE RefSiftDown(_, _, _)
RefSiftDownTo(v, d, i, c) ==
    IF gt(Get(v, c), Get(v, i)) THEN RefSiftDown(exchange(v, c, i), d, c) ELSE v
RefSiftDown(v, d, i) ==
    IF Children(Len(v), d, i) = {} THEN v
    ELSE RefSiftDownTo(v, d, i, FirstMaxChild(v, d, i))

RECURSIVE RefSiftUp(_, _, _)
RefSiftUp(v, d, i) ==
    IF i > 0 /\ gt(Get(v, i), Get(v, (i - 1) \div d))
    THEN RefSiftUp(exchange(v, i, (i - 1) \div d), d, (i - 1) \div d)
    ELSE v

\* index i of a call as an index into the live elements
LiveIndex(i) == IF kind = "Heap" THEN i - 1 ELSE i

\* what replace(i, v) is said to leave: nothing changed for an equal value,
\* else v written at i and sifted down (smaller) or up (larger)
ReplaceReference(i, v) ==
    IF v = Get(array, i) THEN live(array)
    ELSE IF lt(v, Get(array, i))
         THEN RefSiftDown(Set(live(array), LiveIndex(i), v), degree, LiveIndex(i))
    ELSE RefSiftUp(Set(live(array), LiveIndex(i), v), degree, LiveIndex(i))

\* C24: replace(i, v) with a valid index returns Ok; with v equal to A[i]
\* the whole array is unchanged, with v smaller the array is the one with v
\* written at i and sifted down from i, with v larger the one with v written
\* at i and sifted up from i; on the binary Heap and on DAryHeap.
C24_ReplaceThreeWays ==
    [][\A i \in Indices, v \in Values :
          ((Replace(i, v) \/ DReplace(i, v)) /\ ValidIndex(i)) =>
              /\ result' = OkUnit
              /\ live(array') = ReplaceReference(i, v)
              /\ v = Get(array, i) => array' = array
              /\ kind = "Heap" => Get(array', 0) = Get(array, 0)]_vars

\* a replace on a DAryHeap of degree 3 that left a 2 at the root of four
\* elements
C24_Witness ==
    /\ kind = "DAryHeap"
    /\ degree = 3
    /\ op = "replace"
    /\ result = OkUnit
    /\ array = <<2, 0, 1, 1>>

\* C25: max() leaves the array as it was, and it returns Some of the first
\* live element when the heap is not empty and None when it is empty; the
\* dummy of slot 0 is never what it returns.
C25_MaxPeeks ==
    [][Max =>
          /\ array' = array
          /\ result' = IF live(array) = <<>> THEN None ELSE Some(live(array)[1])]_vars

\* max() answered on a heap whose root differs from the dummy
C25_Witness ==
    /\ kind = "Heap"
    /\ op = "max"
    /\ result = Some(1)
    /\ size(array) = 3
    /\ Get(array, 0) = 0

\* C26: in every state reached from build by insert, extract_max, delete,
\* replace and replace_if_greater, max() returns an element that is >= every
\* live element, and what extract_max returned is >= every element left.
C26_MaxIsGreatest ==
    (kind = "Heap" /\ pc = "built" /\ state = "PriorityQueue") =>
        /\ \A p \in 2..Len(array) : le(array[p], max(array)[2])
        /\ (op = "extract_max" /\ result # None) =>
               \A p \in 2..Len(array) : le(array[p], result[2])

\* the indices of the subtree rooted at i, among n elements of a d-ary heap
RECURSIVE DescendsFrom(_, _, _)
DescendsFrom(j, i, d) == j = i \/ (j > i /\ DescendsFrom((j - 1) \div d, i, d))
Subtree(n, d, i) == {j \in 0..(n - 1) : DescendsFrom(j, i, d)}

\* every element of the subtree of i other than those in Except is <= its
\* parent
OrderedBelow(v, d, i, Except) ==
    \A j \in Subtree(Len(v), d, i) \ ({i} \cup Except) :
        le(Get(v, j), Get(v, (j - 1) \div d))

\* heapfy(i) seen on the live elements: from the sequence before to the
\* sequence after, i counted from 0
HeapfyContract(before, after, d, i) ==
    OrderedBelow(before, d, i, Children(Len(before), d, i)) =>
        /\ OrderedBelow(after, d, i, {})
        /\ \A j \in (0..(Len(before) - 1)) \ Subtree(Len(before), d, i) :
               Get(after, j) = Get(before, j)
        /\ after = RefSiftDown(before, d, i)

\* C27: if the subtree of each child of i satisfies the max-heap invariant,
\* then after heapfy(i) the whole subtree of i satisfies it, no position
\* outside that subtree has changed, and the array is the one obtained by
\* moving the value of i down, at each level to the child holding the
\* greatest value (the first such child on ties) while that child is
\* greater; for Heap::heapfy and for DAryHeap::heapfy.
C27_HeapfyContract ==
    [][/\ \A i \in 1..(Len(initial_array) + 1) :
              HeapfyAt(i) =>
                  /\ HeapfyContract(initial_array, Tail(array'), 2, i - 1)
                  /\ Get(array', 0) = default
       /\ \A i \in 0..(Len(initial_array) - 1) :
              DHeapfyAt(i) =>
                  /\ result' = OkUnit
                  /\ HeapfyContract(initial_array, array', degree, i)]_vars

\* Heap::heapfy(v, 1) moved a 0 from the root down two levels, taking the
\* left of two equal children first
C27_Witness ==
    /\ kind = "Heap"
    /\ op = "heapfy"
    /\ initial_array = <<0, 1, 1, 1, 0>>
    /\ Tail(array) = <<1, 1, 1, 0, 0>>

\* C28: on a heap with the max-heap property, insert(key) leaves exactly the
\* array obtained by appending key and then swapping it with its parent
\* while it is strictly greater than the parent, so a key equal to its
\* parent stays below it; on the binary Heap (whose dummy is untouched) and
\* on DAryHeap.
C28_InsertIsSwapUp ==
    [][\A x \in Values :
          ((Insert(IndexValue(LiveSize, x)) \/ DInsert(IndexValue(LiveSize, x)))
              /\ HeapProperty) =>
              /\ live(array') =
                     RefSiftUp(Append(live(array), IndexValue(LiveSize, x)),
                               degree, LiveSize)
              /\ kind = "Heap" => Get(array', 0) = Get(array, 0)]_vars

\* the fourth insert, of a 1, stayed in the last slot below a parent that is
\* also 1
C28_Witness ==
    /\ kind = "Heap"
    /\ op = "insert"
    /\ Tail(array) = <<IndexValue(0, 1), IndexValue(1, 1),
                       IndexValue(2, 0), IndexValue(3, 1)>>

\* C29: with ascending input lists, merge_sorted appends the values to its
\* buffer in non-increasing order: each iteration appends a value <= the
\* one appended before it, so the buffer is descending until the final
\* reverse.
C29_BufferDescending ==
    /\ [](pc = "loop" =>
            \A p \in 1..(Len(merged_vec) - 1) : merged_vec[p + 1] <= merged_vec[p])
    /\ [][(MergeLoop /\ merged_vec # <<>>) =>
             /\ Len(merged_vec') = Len(merged_vec) + 1
             /\ last(merged_vec') <= last(merged_vec)]_vars

\* four values appended, the last smaller than the first, from three lists
C29_Witness ==
    /\ pc = "loop"
    /\ Len(sorted_lists) = 3
    /\ Len(merged_vec) = 4
    /\ merged_vec[4] < merged_vec[1]
    /\ size(array) = 2

\* the input elements, and those not yet appended to the buffer: the
\* candidates in the heap and the elements still below the cursors
TotalElements == Len(Flatten(sorted_lists, Len(sorted_lists)))
Remaining == size(array) + Unread(Len(sorted_lists))

\* the cursor of the root's list moved one position towards the head of the
\* list (off the list from position 0), no other cursor moved, and the heap
\* kept its size
CursorMoved ==
    /\ RootCursor # None
    /\ indices' = [indices EXCEPT ![RootList + 1] =
                       IF RootCursor[2] = 0 THEN None ELSE Some(RootCursor[2] - 1)]
    /\ size(array') = size(array)

\* one heap entry was removed and no cursor moved
EntryRemoved ==
    /\ indices' = indices
    /\ size(array') = size(array) - 1

\* C30: merge_sorted terminates after exactly as many loop iterations as
\* the input lists have elements.  Each iteration appends exactly one value
\* and either moves exactly one cursor by one position or removes exactly
\* one heap entry, never both, so it lowers the number of elements not yet
\* appended by one; the loop goes on while that number is positive and
\* ends, without failing, when it is zero, with every element appended.
C30_MergeTerminates ==
    /\ [][MergeLoop =>
             /\ pc' = "loop"
             /\ Len(merged_vec') = Len(merged_vec) + 1
             /\ CursorMoved # EntryRemoved
             /\ Remaining' = Remaining - 1]_vars
    /\ [](pc = "loop" =>
            /\ Len(merged_vec) + Remaining = TotalElements
            /\ size(array) = 0 <=> Remaining = 0)
    /\ [][MergeReturn => (Remaining = 0 /\ Len(merged_vec') = TotalElements)]_vars
    /\ [](pc \in {"start", "loop", "done"})

\* the loop has ended after six iterations, over three lists of two elements
C30_Witness ==
    /\ pc = "done"
    /\ Len(sorted_lists) = 3
    /\ \A n \in 1..3 : Len(sorted_lists[n]) = 2
    /\ Len(merged_vec) = 6
    /\ size(array) = 0
    /\ indices = <<None, None, None>>

\* the state of heapsort's array v with live length L, started from a0
HeapsortLoopInvariant(v, L, a0) ==
    /\ IsHeap(SubSeq(v, 1, L + 1))
    /\ Ascending(SubSeq(v, L + 2, Len(v)))
    /\ \A p \in 2..(L + 1) : \A q \in (L + 2)..Len(v) : le(v[p], v[q])
    /\ SameMultiset(Tail(v), Tail(a0))
    /\ Get(v, 0) = Get(a0, 0)

\* C31: during heapsort of a heap, after every loop iteration, with live
\* length L: the first L live elements satisfy the max-heap invariant, the
\* elements after position L are in ascending order, each of them is >=
\* every one of the first L, and the array holds the elements it started
\* with; the loop ends when one live element remains, and the array it
\* leaves is what heapsort returns.
C31_HeapsortLoop ==
    [][SortBuilt =>
          /\ \A L \in 1..(size(array) - 1) :
                 HeapsortLoopInvariant(heapsort_until(array, size(array), L), L, array)
          /\ array' = heapsort_until(array, size(array), 1)]_vars

\* a sorted sequence of five elements with three values, from a heap whose
\* last element was not its least
C31_Witness ==
    /\ kind = "Heap"
    /\ op = "heapsort"
    /\ state = "Sorted"
    /\ Len(initial_array) = 5
    /\ Tail(array) = <<0, 0, 1, 2, 2>>
    /\ initial_array[5] = 2

\* C32: a DAryHeap of any degree >= 1, after new and after every insert,
\* extract_max and replace that follows (on an empty or a one-element heap
\* too, and with an index in or out of range), has failed no assertion of
\* heapfy and read no slot outside its array: it is still usable and its
\* array holds elements only.
C32_HeapfyWithinLimits ==
    (kind = "DAryHeap" /\ degree >= 1 /\ pc # "new") =>
        /\ pc = "built"
        /\ result # Panic
        /\ Len(array) <= cap
        /\ \A i \in 0..(Len(array) - 1) : Get(array, i) \in Values

\* extract_max has taken the only element of a heap of the greatest degree
C32_Witness ==
    /\ kind = "DAryHeap"
    /\ degree = MaxDegree
    /\ op = "extract_max"
    /\ result = Some(MaxVal)
    /\ array = <<>>

\* values that no live element has, below and above all of them
ForeignValues == {0 - 1, MaxVal + 1}

\* a call's array and value are those of the same call on b, slot 0 apart,
\* and slot 0 of b is where it was
SlotZeroApart(onA, onB, b) ==
    /\ onA.ret = onB.ret
    /\ Tail(onA.array) = Tail(onB.array)
    /\ Get(onB.array, 0) = Get(b, 0)

\* every live operation on `a` does what it does when slot 0 holds x
\* instead, and leaves x in slot 0
SlotZeroUnused(a, x) ==
    LET b == Set(a, 0, x)
        same(u, v) == Tail(u) = Tail(v) /\ Get(v, 0) = x
    IN  /\ max(a) = max(b)
        /\ SlotZeroApart(extract_max(a), extract_max(b), b)
        /\ same(heapsort(a), heapsort(b))
        /\ \A k \in Values : same(insert(a, k), insert(b, k))
        /\ \A i \in Indices :
              /\ SlotZeroApart(delete(a, i), delete(b, i), b)
              /\ \A v \in Values :
                    /\ SlotZeroApart(replace(a, i, v), replace(b, i, v), b)
                    /\ SlotZeroApart(replace_if_greater(a, i, v),
                                     replace_if_greater(b, i, v), b)

\* C33: a binary Heap, as a priority queue or sorted, always has an array of
\* at least one slot, the first being the default value that build_heap
\* put there; and what max, extract_max, insert, delete, replace,
\* replace_if_greater and heapsort return and leave in the live slots does
\* not depend on what slot 0 holds, which they leave as it is.
C33_SentinelSlot ==
    (kind = "Heap" /\ pc = "built") =>
        /\ Len(array) >= 1
        /\ size(array) >= 0
        /\ Get(array, 0) = default
        /\ state = "PriorityQueue" => \A x \in ForeignValues : SlotZeroUnused(array, x)

\* a greater value has been sifted up to the root of a full heap
C33_Witness ==
    /\ kind = "Heap"
    /\ state = "PriorityQueue"
    /\ op = "replace_if_greater"
    /\ result = OkUnit
    /\ array = <<default, 2, 1, 1, 0>>

\* C34: on an array that starts with a dummy, and for every index i from 1
\* to the last live index, the iterative heapfy and recursive_heapfy leave
\* the same array, whichever of the two is called.
C34_HeapfyVersionsAgree ==
    [][\A i \in 1..Len(initial_array) :
          (HeapfyAt(i) \/ RecursiveHeapfyAt(i)) =>
              /\ array' = heapfy(<<default>> \o initial_array, i)
              /\ array' = recursive_heapfy(<<default>> \o initial_array, i)]_vars

\* recursive_heapfy(v, 1) moved the root down two levels, with one
\* recursive call after the first exchange
C34_Witness ==
    /\ kind = "Heap"
    /\ op = "recursive_heapfy"
    /\ initial_array = <<0, 2, 1, 1, 0>>
    /\ array = <<default, 2, 1, 1, 0, 0>>

\* C35: on an array that starts with a dummy, is_heap returns true exactly
\* when every live index i >= 2 holds an element that its parent, at i / 2,
\* is greater than or equal to; the true it returns at the first node
\* without a child hides no violation further on.
C35_IsHeapExact ==
    op = "is_heap" =>
        result = Ok(\A i \in 2..(Len(array) - 1) : Get(array, i \div 2) >= Get(array, i))

\* the only violation is at the last live index, the right child of a node
\* that comes after others that passed
C35_Witness ==
    /\ op = "is_heap"
    /\ result = Ok(FALSE)
    /\ Tail(array) = <<2, 1, 1, 0, 2>>

====
